---- MODULE Spec2Model ----
(***************************************************************************)
(* Model of the meeting-summary backend: the FastAPI handler               *)
(* api_generate_summary (backend/summary.py), transcribe_audio and         *)
(* extract_audio (backend/soundSummary.py) and the PDF functions and       *)
(* askModel (backend/slideSummary.py).                                     *)
(*                                                                         *)
(* The handler is a coroutine on a single event loop: it can be suspended  *)
(* only at its two awaits (the reads of the uploads).  The variable loop   *)
(* holds the request that is running; every other step of a request is     *)
(* taken while it holds the loop.                                          *)
(***************************************************************************)
EXTENDS Integers, Sequences, FiniteSets, TLC

(* ----------------------------- bounds ---------------------------------- *)
NumReqs == 2      \* request slots of the server
MaxPages == 2     \* pages of an uploaded document

(* ------------------------ program constants ---------------------------- *)
DefaultChunk == 30   \* transcribe_audio(chunk_length_s = 30)
RetryChunk == 15     \* chunk_length_s of the second attempt

Reqs == 1..NumReqs
None == "<None>"                 \* Python's None where a text is expected
NoPath == << >>                  \* Python's None where a path is expected
NoDoc == << >>                   \* no document read yet

NoContentMsg == "No content provided for summarization"
SuccessMsg == "Summary generated successfully"
FfmpegMsg == "Error: FFmpeg not found. Please install FFmpeg and add it to your PATH. See installation instructions at https://ffmpeg.org/download.html"
PipeNameError == "name 'pipe' is not defined"
ProcessingPrefix == "Error processing file: "
SummaryErrPrefix == "Error generating summary: "
TranscriptionHeader == "Meeting Transcription:\n"
SlidesHeader == "Meeting Slides Content:\n"
SlidesSeparator == "\n\nMeeting Slides Content:\n"

(* ------------------------------ inputs --------------------------------- *)
\* str(e) of an exception raised by a library or adapter call
ExcMsgs == {"boom", ""}
\* texts the Whisper pipeline can return
Transcripts == {"", "We discussed the roadmap."}
\* texts the language model can return
Summaries == {"##Meeting Summary##"}
\* an embedded image: whether cv2.imdecode can decode it, what Tesseract reads
\* in it and what BLIP says about it
BarChart == [dec |-> TRUE, ocr |-> "", cap |-> "a bar chart"]
Slide == [dec |-> TRUE, ocr |-> "Q3", cap |-> "a slide"]
Broken == [dec |-> FALSE, ocr |-> "", cap |-> "a blur"]
\* a page: its embedded text ("" for a purely graphical page) and its images
PageKinds ==
    { [text |-> "",           images |-> << >>],
      [text |-> "Q3 Roadmap", images |-> << >>],
      [text |-> "Q3 Roadmap", images |-> << BarChart >>],
      [text |-> "",           images |-> << Slide, Broken >>],
      [text |-> "Agenda",     images |-> << Broken, Slide >>] }
\* the documents a client can upload
Docs == UNION { [1..k -> PageKinds] : k \in 1..MaxPages }

(* ------------------------------ paths ---------------------------------- *)
\* NamedTemporaryFile(delete=False, suffix=...) gives every call a fresh name
Mp4Suffix == 1
PdfSuffix == 2
UploadPath(r, suffix) == <<"upload", r, suffix>>
\* extract_audio's default output_audio, relative to the working directory
TempAudio == <<"temp_audio.wav", 0, 0>>
\* os.path.join(output_dir, f"page_{page_num + 1}_img_{img_index + 1}.jpg")
ImagePath(p, i) == <<"extracted_images", p, i>>

(* --------------------------- string helpers ---------------------------- *)
RECURSIVE Join(_, _)
\* sep.join(parts)
Join(parts, sep) ==
    IF Len(parts) = 0 THEN ""
    ELSE IF Len(parts) = 1 THEN parts[1]
    ELSE parts[1] \o sep \o Join(Tail(parts), sep)

Truthy(str) == str # ""

(* ------------------- slideSummary.py: pure parts ----------------------- *)
RECURSIVE PageTextsOf(_)
\* the list `text` of extract_text_from_pdf: the pages' texts, empty ones skipped
PageTextsOf(doc) ==
    IF Len(doc) = 0 THEN << >>
    ELSE IF Truthy(doc[1].text) THEN << doc[1].text >> \o PageTextsOf(Tail(doc))
    ELSE PageTextsOf(Tail(doc))

\* extract_text_from_pdf on a readable document
extract_text_from_pdf(doc) == Join(PageTextsOf(doc), "\n")

RECURSIVE ImagesFrom(_, _)
\* the images of pages p..Len(doc) in the order the loops over doc and
\* page.get_images meet them, each with its page number and index
ImagesFrom(doc, p) ==
    IF p > Len(doc) THEN << >>
    ELSE [i \in 1..Len(doc[p].images) |->
             [page |-> p, index |-> i, img |-> doc[p].images[i]]]
         \o ImagesFrom(doc, p + 1)

ImagesOf(doc) == ImagesFrom(doc, 1)

RECURSIVE OcrTexts(_)
\* the list all_text over the images given: images cv2 cannot decode are skipped
OcrTexts(imgs) ==
    IF Len(imgs) = 0 THEN << >>
    ELSE IF imgs[1].img.dec THEN << imgs[1].img.ocr >> \o OcrTexts(Tail(imgs))
    ELSE OcrTexts(Tail(imgs))

\* extract_images_and_ocr: failAt = 0 when no call raises, else the position
\* of the (decodable) image whose pytesseract.image_to_string call raises.
\* calls is the number of image_to_string calls made.
extract_images_and_ocr(doc, failAt) ==
    LET imgs == ImagesOf(doc)
        seen == IF failAt = 0 THEN imgs ELSE SubSeq(imgs, 1, failAt)
    IN  [raised |-> failAt # 0,
         value  |-> IF failAt = 0 THEN Join(OcrTexts(imgs), "\n\n") ELSE None,
         calls  |-> Len(OcrTexts(seen))]

\* the files generate_image_captions writes: one per image, before any caption
ImageFiles(doc) ==
    { ImagePath(ImagesOf(doc)[k].page, ImagesOf(doc)[k].index) :
        k \in 1..Len(ImagesOf(doc)) }

\* generate_image_captions: failAt = 0 when no call raises, else the position
\* of the image whose caption step raises; how = "open" when Image.open raises,
\* "generate" when model.generate raises.  calls counts model.generate calls.
generate_image_captions(doc, failAt, how) ==
    LET imgs == ImagesOf(doc)
    IN  [raised |-> failAt # 0,
         value  |-> IF failAt = 0
                    THEN Join([k \in 1..Len(imgs) |-> imgs[k].img.cap], "\n")
                    ELSE None,
         calls  |-> IF failAt = 0 THEN Len(imgs)
                    ELSE IF how = "open" THEN failAt - 1 ELSE failAt,
         written |-> ImageFiles(doc)]

\* askModel: the OpenAI call returns `reply`, or raises with message `reply`;
\* an exception is caught inside askModel and returned as text
askModel(ok, reply) == IF ok THEN reply ELSE SummaryErrPrefix \o reply

\* faulty variant of line 127: the OCR text put before the embedded text
CombineContextOcrFirst(pdf_text, image_ocr_text, image_captions_text) ==
    image_ocr_text \o "\n" \o pdf_text \o "\n" \o image_captions_text

\* summary.py line 127
CombineContext(pdf_text, image_ocr_text, image_captions_text) ==
    pdf_text \o "\n" \o image_ocr_text \o "\n" \o image_captions_text

\* faulty variant of lines 130-147: the final else branch missing, the slides
\* branch taken whenever there is no transcription
MeetingContentNoElse(transcription, combined_context) ==
    IF Truthy(transcription) /\ Truthy(combined_context)
    THEN TranscriptionHeader \o transcription \o SlidesSeparator \o combined_context
    ELSE IF Truthy(transcription) THEN TranscriptionHeader \o transcription
    ELSE SlidesHeader \o combined_context

\* faulty variant of lines 130-147: both headers written whenever there is
\* any content
MeetingContentBothHeaders(transcription, combined_context) ==
    IF Truthy(transcription) \/ Truthy(combined_context)
    THEN TranscriptionHeader \o transcription \o SlidesSeparator \o combined_context
    ELSE None

\* summary.py lines 130-147: the meeting content, None when the handler returns
\* the no-content error instead
MeetingContent(transcription, combined_context) ==
    IF Truthy(transcription) /\ Truthy(combined_context)
    THEN TranscriptionHeader \o transcription \o SlidesSeparator \o combined_context
    ELSE IF Truthy(transcription) THEN TranscriptionHeader \o transcription
    ELSE IF Truthy(combined_context) THEN SlidesHeader \o combined_context
    ELSE None

(* ------------------------------- state --------------------------------- *)
VARIABLES
    loop,           \* the request running on the event loop, 0 when none is
    pending,        \* requests that have not arrived yet
    uploads,        \* the documents clients upload
    temp_files,     \* summary.py line 30: the module-level list
    disk,           \* the paths that exist in the file system
    pipe_defined,   \* whether soundSummary.py's module-level pipeline() call succeeded
    adapters,       \* how the libraries and the operating system answer the calls
    pc,             \* where each request's handler stands
    mp4_file,       \* whether the request carries a video
    pdf_file,       \* whether the request carries a document
    doc,            \* the document read from the upload, NoDoc before
    fr,             \* the handler's local variables
    ta,             \* transcribe_audio's local variables
    exc,            \* str(e) of the exception on its way to the handler's except clause
    response,       \* the dicts the handler returned, in order
    propagated,     \* the exception that left the handler, None when none did
    pipe_calls,     \* chunk_length_s of every call of pipe, in order
    ffmpeg_checks,  \* number of `ffmpeg -version` runs
    ocr_calls,      \* number of pytesseract.image_to_string calls
    caption_calls,  \* number of model.generate calls in generate_image_captions
    ask_calls,      \* the context argument of every askModel call, in order
    llm_error,      \* str(e) of the openai call that raised, None when none did
    failures,       \* the calls of the request that raised or failed
    created,        \* the paths each request created or wrote
    deleted         \* the paths each request removed

globals == << loop, pending, uploads, temp_files, disk, pipe_defined, adapters >>
inputs == << mp4_file, pdf_file, doc >>
frames == << fr, ta, exc, response, propagated >>
stubs == << pipe_calls, ffmpeg_checks, ocr_calls, caption_calls, ask_calls, llm_error >>
history == << failures, created, deleted >>
vars == << globals, pc, inputs, frames, stubs, history >>

(* ---------------------------- the adapters ------------------------------ *)
\* An adapter answers a call the same way every time (fixed) or any way it
\* can (Free).  upload_read: `await file.read()` succeeds; audio: what
\* extract_audio leaves behind; ffmpeg: `ffmpeg -version` runs; first, second:
\* the two pipe calls succeed; text: what pipe transcribes; remove: os.remove
\* succeeds; pdf_text: PyPDF2 reads the file; fitz: fitz.open succeeds;
\* bad_ocr, bad_cap: the images on which image_to_string and the caption
\* step raise; cap_how: whether Image.open or model.generate raises; blip:
\* from_pretrained succeeds; llm: the chat call succeeds; msg: str(e)
Free ==
    [fixed |-> FALSE, upload_read |-> TRUE, audio |-> "ok", ffmpeg |-> TRUE,
     first |-> TRUE, second |-> TRUE, text |-> "", remove |-> TRUE,
     pdf_text |-> TRUE, fitz |-> TRUE, bad_ocr |-> {}, blip |-> TRUE,
     bad_cap |-> {}, cap_how |-> "generate", llm |-> TRUE, msg |-> "boom"]

\* every call answered as the libraries' happy path does
Healthy == [Free EXCEPT !.fixed = TRUE, !.text = "We discussed the roadmap."]

\* the deterministic adapters considered: the healthy one and one per fault
Profiles ==
    { Healthy,
      [Healthy EXCEPT !.remove = FALSE],
      [Healthy EXCEPT !.audio = "partial"],
      [Healthy EXCEPT !.ffmpeg = FALSE],
      [Healthy EXCEPT !.first = FALSE],
      [Healthy EXCEPT !.first = FALSE, !.second = FALSE],
      [Healthy EXCEPT !.text = ""],
      [Healthy EXCEPT !.upload_read = FALSE],
      [Healthy EXCEPT !.pdf_text = FALSE],
      [Healthy EXCEPT !.bad_ocr = {Slide}],
      [Healthy EXCEPT !.bad_cap = {BarChart}, !.llm = FALSE] }

\* whether the adapters can answer the call named `field` with v
Allowed(field, v) == ~adapters.fixed \/ adapters[field] = v

\* the first of the positions `points` of d's images that holds an image of
\* `bad`, 0 when there is none
FirstBad(points, d, bad) ==
    LET hits == { k \in points : ImagesOf(d)[k].img \in bad }
    IN  IF hits = {} THEN 0 ELSE CHOOSE k \in hits : \A j \in hits : k <= j

\* summary.py lines 87-91 and 130; temp_path and final_summary are unbound
NewFrame ==
    [temp_path |-> NoPath, transcription |-> "", pdf_text |-> "",
     image_ocr_text |-> "", image_captions_text |-> "",
     combined_context |-> "", meeting_content |-> None, final_summary |-> None]

\* soundSummary.py lines 88-89; ret is the value of the return statement
\* reached, err the exception caught at line 144
NewCall == [temp_audio |-> NoPath, result |-> None, ret |-> None, err |-> None]

\* the server after start-up: `arrivals` are the requests clients will send,
\* `documents` what they upload, `profiles` how the adapters may behave
InitEnv(arrivals, documents, profiles) ==
    /\ loop = 0
    /\ adapters \in profiles
    /\ pending = arrivals
    /\ uploads = documents
    /\ temp_files = << >>
    /\ disk = {}
    /\ pipe_defined \in BOOLEAN
    /\ pc = [r \in Reqs |-> "idle"]
    /\ mp4_file = [r \in Reqs |-> FALSE]
    /\ pdf_file = [r \in Reqs |-> FALSE]
    /\ doc = [r \in Reqs |-> NoDoc]
    /\ fr = [r \in Reqs |-> NewFrame]
    /\ ta = [r \in Reqs |-> NewCall]
    /\ exc = [r \in Reqs |-> None]
    /\ response = [r \in Reqs |-> << >>]
    /\ propagated = [r \in Reqs |-> None]
    /\ pipe_calls = [r \in Reqs |-> << >>]
    /\ ffmpeg_checks = [r \in Reqs |-> 0]
    /\ ocr_calls = [r \in Reqs |-> 0]
    /\ caption_calls = [r \in Reqs |-> 0]
    /\ ask_calls = [r \in Reqs |-> << >>]
    /\ llm_error = [r \in Reqs |-> None]
    /\ failures = [r \in Reqs |-> {}]
    /\ created = [r \in Reqs |-> {}]
    /\ deleted = [r \in Reqs |-> {}]

\* the same server with adapters that may answer every call differently
InitWith(arrivals, documents) == InitEnv(arrivals, documents, {Free})

\* a freshly started server that receives one request
Init == InitWith({1}, Docs)

(* --------------------------- handler steps ----------------------------- *)
\* a step that raises: the exception travels to `except Exception` (line 192)
Raise(r, step, msg) ==
    /\ pc' = [pc EXCEPT ![r] = "except"]
    /\ exc' = [exc EXCEPT ![r] = msg]
    /\ failures' = [failures EXCEPT ![r] = @ \cup {step}]

\* the POST arrives, with or without each of the two uploads
Receive(r) ==
    /\ r \in pending
    /\ pending' = pending \ {r}
    /\ \E v \in BOOLEAN, d \in BOOLEAN :
          /\ mp4_file' = [mp4_file EXCEPT ![r] = v]
          /\ pdf_file' = [pdf_file EXCEPT ![r] = d]
    /\ pc' = [pc EXCEPT ![r] = "start"]
    /\ UNCHANGED << loop, uploads, temp_files, disk, pipe_defined, adapters, doc, frames, stubs, history >>

\* lines 85-91: the event loop starts the coroutine
Begin(r) ==
    /\ pc[r] = "start"
    /\ loop = 0
    /\ loop' = r
    /\ fr' = [fr EXCEPT ![r] = NewFrame]
    /\ pc' = [pc EXCEPT ![r] = "video"]
    /\ UNCHANGED << pending, uploads, temp_files, disk, pipe_defined, adapters, inputs, ta, exc,
                    response, propagated, stubs, history >>

\* line 94, no video
SkipVideo(r) ==
    /\ pc[r] = "video" /\ loop = r
    /\ ~mp4_file[r]
    /\ pc' = [pc EXCEPT ![r] = "pdf"]
    /\ UNCHANGED << globals, inputs, frames, stubs, history >>

\* lines 94-98: NamedTemporaryFile creates the file, then the coroutine
\* suspends in `await mp4_file.read()`
OpenVideoTemp(r) ==
    /\ pc[r] = "video" /\ loop = r
    /\ mp4_file[r]
    /\ disk' = disk \cup {UploadPath(r, Mp4Suffix)}
    /\ created' = [created EXCEPT ![r] = @ \cup {UploadPath(r, Mp4Suffix)}]
    /\ pc' = [pc EXCEPT ![r] = "await_mp4"]
    /\ loop' = 0
    /\ UNCHANGED << pending, uploads, temp_files, pipe_defined, adapters, inputs, frames, stubs, failures, deleted >>

\* lines 98-101: the read completes and the path is recorded, or the read raises
\* and the with block is left before line 101
ReadVideo(r) ==
    /\ pc[r] = "await_mp4" /\ loop = 0
    /\ loop' = r
    /\ \/ /\ Allowed("upload_read", TRUE)
          /\ fr' = [fr EXCEPT ![r].temp_path = UploadPath(r, Mp4Suffix)]
          /\ temp_files' = Append(temp_files, UploadPath(r, Mp4Suffix))
          /\ ta' = [ta EXCEPT ![r] = NewCall]
          /\ pc' = [pc EXCEPT ![r] = "ta_extract"]
          /\ UNCHANGED << exc, failures >>
       \/ /\ Allowed("upload_read", FALSE)
          /\ \E msg \in ExcMsgs : Allowed("msg", msg) /\ Raise(r, "read_mp4", msg)
          /\ UNCHANGED << fr, ta, temp_files >>
    /\ UNCHANGED << pending, uploads, disk, pipe_defined, adapters, inputs, response, propagated,
                    stubs, created, deleted >>

(* ------------------ soundSummary.py: transcribe_audio ------------------ *)
\* an exception inside transcribe_audio's try block: caught at line 144
Caught(r, step, msg) ==
    /\ ta' = [ta EXCEPT ![r].err = msg]
    /\ failures' = [failures EXCEPT ![r] = @ \cup {step}]
    /\ pc' = [pc EXCEPT ![r] = "ta_return"]

\* faulty variant of extract_audio: an audio file left behind by an earlier
\* call is not overwritten, the call raises instead
TA_ExtractAudioNoOverwrite(r) ==
    /\ pc[r] = "ta_extract" /\ loop = r
    /\ IF TempAudio \in disk
       THEN /\ \E msg \in ExcMsgs : Allowed("msg", msg) /\ Caught(r, "extract_audio", msg)
            /\ UNCHANGED << disk, created >>
       ELSE \/ /\ Allowed("audio", "none")
               /\ \E msg \in ExcMsgs : Allowed("msg", msg) /\ Caught(r, "extract_audio", msg)
               /\ UNCHANGED << disk, created >>
            \/ /\ Allowed("audio", "partial")
               /\ \E msg \in ExcMsgs : Allowed("msg", msg) /\ Caught(r, "extract_audio", msg)
               /\ disk' = disk \cup {TempAudio}
               /\ created' = [created EXCEPT ![r] = @ \cup {TempAudio}]
            \/ /\ Allowed("audio", "ok")
               /\ disk' = disk \cup {TempAudio}
               /\ created' = [created EXCEPT ![r] = @ \cup {TempAudio}]
               /\ ta' = [ta EXCEPT ![r].temp_audio = TempAudio]
               /\ pc' = [pc EXCEPT ![r] = "ta_ffmpeg"]
               /\ UNCHANGED failures
    /\ UNCHANGED << loop, pending, uploads, temp_files, pipe_defined, adapters, inputs, fr, exc,
                    response, propagated, stubs, deleted >>

\* lines 93-96 with extract_audio (lines 61-67): the upload's name ends in
\* ".mp4".  VideoFileClip raises or the clip has no audio track (nothing is
\* written), write_audiofile raises after it created the file, or the audio
\* is written
TA_ExtractAudio(r) ==
    /\ pc[r] = "ta_extract" /\ loop = r
    /\ \/ /\ Allowed("audio", "none")
          /\ \E msg \in ExcMsgs : Allowed("msg", msg) /\ Caught(r, "extract_audio", msg)
          /\ UNCHANGED << disk, created >>
       \/ /\ Allowed("audio", "partial")
          /\ \E msg \in ExcMsgs : Allowed("msg", msg) /\ Caught(r, "extract_audio", msg)
          /\ disk' = disk \cup {TempAudio}
          /\ created' = [created EXCEPT ![r] = @ \cup {TempAudio}]
       \/ /\ Allowed("audio", "ok")
          /\ disk' = disk \cup {TempAudio}
          /\ created' = [created EXCEPT ![r] = @ \cup {TempAudio}]
          /\ ta' = [ta EXCEPT ![r].temp_audio = TempAudio]
          /\ pc' = [pc EXCEPT ![r] = "ta_ffmpeg"]
          /\ UNCHANGED failures
    /\ UNCHANGED << loop, pending, uploads, temp_files, pipe_defined, adapters, inputs, fr, exc,
                    response, propagated, stubs, deleted >>

\* faulty variant of lines 99-110: a missing ffmpeg is logged and the
\* transcription is attempted all the same
TA_CheckFfmpegProceeds(r) ==
    /\ pc[r] = "ta_ffmpeg" /\ loop = r
    /\ ffmpeg_checks' = [ffmpeg_checks EXCEPT ![r] = @ + 1]
    /\ \E ffmpeg_available \in BOOLEAN :
          /\ Allowed("ffmpeg", ffmpeg_available)
          /\ failures' = [failures EXCEPT ![r] =
                              IF ffmpeg_available THEN @ ELSE @ \cup {"ffmpeg"}]
    /\ pc' = [pc EXCEPT ![r] = "ta_first"]
    /\ UNCHANGED << globals, inputs, fr, ta, exc, response, propagated, pipe_calls,
                    ocr_calls, caption_calls, ask_calls, llm_error, created, deleted >>

\* lines 99-110: `ffmpeg -version` is run; without ffmpeg the function returns
\* the FFmpeg message
TA_CheckFfmpeg(r) ==
    /\ pc[r] = "ta_ffmpeg" /\ loop = r
    /\ ffmpeg_checks' = [ffmpeg_checks EXCEPT ![r] = @ + 1]
    /\ \E ffmpeg_available \in BOOLEAN :
          /\ Allowed("ffmpeg", ffmpeg_available)
          /\ IF ffmpeg_available
             THEN /\ pc' = [pc EXCEPT ![r] = "ta_first"]
                  /\ UNCHANGED << ta, failures >>
             ELSE /\ ta' = [ta EXCEPT ![r].ret = FfmpegMsg]
                  /\ failures' = [failures EXCEPT ![r] = @ \cup {"ffmpeg"}]
                  /\ pc' = [pc EXCEPT ![r] = "ta_return"]
    /\ UNCHANGED << globals, inputs, fr, exc, response, propagated, pipe_calls,
                    ocr_calls, caption_calls, ask_calls, llm_error, created, deleted >>

\* faulty variant of lines 122-128: the second attempt made after a first
\* attempt that succeeded too
AfterFirstAttemptAlwaysRetry(ok) == "ta_second"

\* lines 122-128: where control goes after the first pipe call
AfterFirstAttempt(ok) == IF ok THEN "ta_return" ELSE "ta_second"

\* lines 113-126: the first attempt, with the chunk length passed in.  When
\* `pipe` is unbound the NameError is caught like a failed call
TA_FirstAttempt(r) ==
    /\ pc[r] = "ta_first" /\ loop = r
    /\ IF ~pipe_defined
       THEN /\ pc' = [pc EXCEPT ![r] = "ta_second"]
            /\ failures' = [failures EXCEPT ![r] = @ \cup {"pipe_first"}]
            /\ UNCHANGED << ta, pipe_calls >>
       ELSE /\ pipe_calls' = [pipe_calls EXCEPT ![r] = Append(@, DefaultChunk)]
            /\ \E ok \in BOOLEAN :
                  /\ Allowed("first", ok)
                  /\ pc' = [pc EXCEPT ![r] = AfterFirstAttempt(ok)]
                  /\ IF ok
                     THEN /\ \E text \in Transcripts :
                                /\ Allowed("text", text)
                                /\ ta' = [ta EXCEPT ![r].result = text, ![r].ret = text]
                          /\ UNCHANGED failures
                     ELSE /\ failures' = [failures EXCEPT ![r] = @ \cup {"pipe_first"}]
                          /\ UNCHANGED ta
    /\ UNCHANGED << globals, inputs, fr, exc, response, propagated, ffmpeg_checks,
                    ocr_calls, caption_calls, ask_calls, llm_error, created, deleted >>

\* lines 129-142: the second attempt; its exception is re-raised to line 144
TA_SecondAttempt(r) ==
    /\ pc[r] = "ta_second" /\ loop = r
    /\ IF ~pipe_defined
       THEN /\ Caught(r, "pipe_second", PipeNameError)
            /\ UNCHANGED pipe_calls
       ELSE /\ pipe_calls' = [pipe_calls EXCEPT ![r] = Append(@, RetryChunk)]
            /\ \/ /\ Allowed("second", TRUE)
                  /\ \E text \in Transcripts :
                        /\ Allowed("text", text)
                        /\ ta' = [ta EXCEPT ![r].result = text, ![r].ret = text]
                  /\ pc' = [pc EXCEPT ![r] = "ta_return"]
                  /\ UNCHANGED failures
               \/ /\ Allowed("second", FALSE)
                  /\ \E msg \in ExcMsgs : Allowed("msg", msg) /\ Caught(r, "pipe_second", msg)
    /\ UNCHANGED << globals, inputs, fr, exc, response, propagated, ffmpeg_checks,
                    ocr_calls, caption_calls, ask_calls, llm_error, created, deleted >>

\* faulty variant of lines 144-147: a failed transcription is returned as an
\* empty transcript
ReturnValueEmptyOnError(call) ==
    IF call.err # None THEN "" ELSE call.ret

\* lines 144-147: what transcribe_audio returns
ReturnValue(call) ==
    IF call.err # None THEN ProcessingPrefix \o call.err ELSE call.ret

\* lines 144-155 and summary.py line 104: the except clause turns an exception
\* into text, the finally clause removes the audio file if temp_audio is set
\* (os.remove may fail, which is logged), and the handler binds the result
TA_Return(r) ==
    /\ pc[r] = "ta_return" /\ loop = r
    /\ fr' = [fr EXCEPT ![r].transcription = ReturnValue(ta[r])]
    /\ IF ta[r].temp_audio # NoPath /\ ta[r].temp_audio \in disk
       THEN \/ /\ Allowed("remove", TRUE)
               /\ disk' = disk \ {ta[r].temp_audio}
               /\ deleted' = [deleted EXCEPT ![r] = @ \cup {ta[r].temp_audio}]
               /\ UNCHANGED failures
            \/ /\ Allowed("remove", FALSE)
               /\ failures' = [failures EXCEPT ![r] = @ \cup {"os_remove"}]
               /\ UNCHANGED << disk, deleted >>
       ELSE UNCHANGED << disk, failures, deleted >>
    /\ pc' = [pc EXCEPT ![r] = "pdf"]
    /\ UNCHANGED << loop, pending, uploads, temp_files, pipe_defined, adapters, inputs, ta, exc,
                    response, propagated, stubs, created >>

(* ----------------------- the document pipeline -------------------------- *)
\* line 108, no document
SkipPdf(r) ==
    /\ pc[r] = "pdf" /\ loop = r
    /\ ~pdf_file[r]
    /\ pc' = [pc EXCEPT ![r] = "assemble"]
    /\ UNCHANGED << globals, inputs, frames, stubs, history >>

\* faulty variant of lines 108-115: the path is recorded in temp_files before
\* the upload is read
OpenPdfTempRecordFirst(r) ==
    /\ pc[r] = "pdf" /\ loop = r
    /\ pdf_file[r]
    /\ disk' = disk \cup {UploadPath(r, PdfSuffix)}
    /\ created' = [created EXCEPT ![r] = @ \cup {UploadPath(r, PdfSuffix)}]
    /\ temp_files' = Append(temp_files, UploadPath(r, PdfSuffix))
    /\ pc' = [pc EXCEPT ![r] = "await_pdf"]
    /\ loop' = 0
    /\ UNCHANGED << pending, uploads, pipe_defined, adapters, inputs, frames, stubs, failures,
                    deleted >>

\* lines 108-112: NamedTemporaryFile creates the file, then the coroutine
\* suspends in `await pdf_file.read()`
OpenPdfTemp(r) ==
    /\ pc[r] = "pdf" /\ loop = r
    /\ pdf_file[r]
    /\ disk' = disk \cup {UploadPath(r, PdfSuffix)}
    /\ created' = [created EXCEPT ![r] = @ \cup {UploadPath(r, PdfSuffix)}]
    /\ pc' = [pc EXCEPT ![r] = "await_pdf"]
    /\ loop' = 0
    /\ UNCHANGED << pending, uploads, temp_files, pipe_defined, adapters, inputs, frames, stubs, failures, deleted >>

\* lines 112-115: the read delivers the document and the path is recorded, or
\* the read raises and the with block is left before line 115
ReadPdf(r) ==
    /\ pc[r] = "await_pdf" /\ loop = 0
    /\ loop' = r
    /\ \/ /\ Allowed("upload_read", TRUE)
          /\ \E d \in uploads : doc' = [doc EXCEPT ![r] = d]
          /\ fr' = [fr EXCEPT ![r].temp_path = UploadPath(r, PdfSuffix)]
          /\ temp_files' = Append(temp_files, UploadPath(r, PdfSuffix))
          /\ pc' = [pc EXCEPT ![r] = "extract_text"]
          /\ UNCHANGED << exc, failures >>
       \/ /\ Allowed("upload_read", FALSE)
          /\ \E msg \in ExcMsgs : Allowed("msg", msg) /\ Raise(r, "read_pdf", msg)
          /\ UNCHANGED << fr, doc, temp_files >>
    /\ UNCHANGED << pending, uploads, disk, pipe_defined, adapters, mp4_file, pdf_file, ta, response,
                    propagated, stubs, created, deleted >>

\* line 118: PyPDF2 reads the pages, or cannot read the file
ExtractText(r) ==
    /\ pc[r] = "extract_text" /\ loop = r
    /\ \/ /\ Allowed("pdf_text", TRUE)
          /\ fr' = [fr EXCEPT ![r].pdf_text = extract_text_from_pdf(doc[r])]
          /\ pc' = [pc EXCEPT ![r] = "ocr"]
          /\ UNCHANGED << exc, failures >>
       \/ /\ Allowed("pdf_text", FALSE)
          /\ \E msg \in ExcMsgs : Allowed("msg", msg) /\ Raise(r, "extract_text_from_pdf", msg)
          /\ UNCHANGED fr
    /\ UNCHANGED << globals, inputs, ta, response, propagated, stubs, created, deleted >>

\* the positions at which a pytesseract call can raise: the decodable images
OcrFailPoints(d) == { k \in 1..Len(ImagesOf(d)) : ImagesOf(d)[k].img.dec }

\* line 121: fitz cannot open the file, or the loop over the images runs, to
\* its end or to the call that raises
OcrImages(r) ==
    /\ pc[r] = "ocr" /\ loop = r
    /\ \/ /\ Allowed("fitz", FALSE)
          /\ \E msg \in ExcMsgs : Allowed("msg", msg) /\ Raise(r, "fitz_open", msg)
          /\ UNCHANGED << fr, ocr_calls >>
       \/ \E failAt \in {0} \cup OcrFailPoints(doc[r]) :
             LET res == extract_images_and_ocr(doc[r], failAt) IN
             /\ Allowed("fitz", TRUE)
             /\ adapters.fixed =>
                   failAt = FirstBad(OcrFailPoints(doc[r]), doc[r], adapters.bad_ocr)
             /\ ocr_calls' = [ocr_calls EXCEPT ![r] = @ + res.calls]
             /\ IF res.raised
                THEN /\ \E msg \in ExcMsgs :
                           Allowed("msg", msg) /\ Raise(r, "image_to_string", msg)
                     /\ UNCHANGED fr
                ELSE /\ fr' = [fr EXCEPT ![r].image_ocr_text = res.value]
                     /\ pc' = [pc EXCEPT ![r] = "captions"]
                     /\ UNCHANGED << exc, failures >>
    /\ UNCHANGED << globals, inputs, ta, response, propagated, pipe_calls,
                    ffmpeg_checks, caption_calls, ask_calls, llm_error, created, deleted >>

\* line 124: loading BLIP raises before any file is written, or every image is
\* written to extracted_images and the caption loop runs, to its end or to the
\* call that raises
CaptionImages(r) ==
    /\ pc[r] = "captions" /\ loop = r
    /\ \/ /\ Allowed("blip", FALSE)
          /\ \E msg \in ExcMsgs : Allowed("msg", msg) /\ Raise(r, "blip_load", msg)
          /\ UNCHANGED << fr, caption_calls, disk, created >>
       \/ \E failAt \in 0..Len(ImagesOf(doc[r])), how \in {"open", "generate"} :
             LET res == generate_image_captions(doc[r], failAt, how) IN
             /\ Allowed("blip", TRUE)
             /\ Allowed("cap_how", how)
             /\ adapters.fixed =>
                   failAt = FirstBad(1..Len(ImagesOf(doc[r])), doc[r], adapters.bad_cap)
             /\ disk' = disk \cup res.written
             /\ created' = [created EXCEPT ![r] = @ \cup res.written]
             /\ caption_calls' = [caption_calls EXCEPT ![r] = @ + res.calls]
             /\ IF res.raised
                THEN /\ \E msg \in ExcMsgs :
                           Allowed("msg", msg) /\ Raise(r, "caption_image", msg)
                     /\ UNCHANGED fr
                ELSE /\ fr' = [fr EXCEPT ![r].image_captions_text = res.value]
                     /\ pc' = [pc EXCEPT ![r] = "combine"]
                     /\ UNCHANGED << exc, failures >>
    /\ UNCHANGED << loop, pending, uploads, temp_files, pipe_defined, adapters, inputs, ta, response,
                    propagated, pipe_calls, ffmpeg_checks, ocr_calls, ask_calls,
                    llm_error, deleted >>

\* line 127
Combine(r) ==
    /\ pc[r] = "combine" /\ loop = r
    /\ fr' = [fr EXCEPT ![r].combined_context =
                 CombineContext(fr[r].pdf_text, fr[r].image_ocr_text,
                                fr[r].image_captions_text)]
    /\ pc' = [pc EXCEPT ![r] = "assemble"]
    /\ UNCHANGED << globals, inputs, ta, exc, response, propagated, stubs, history >>

(* ------------------------ fusion and summary --------------------------- *)
ErrorResult(msg) == [summary |-> "", status |-> "error", message |-> msg]
SuccessResult(text) == [summary |-> text, status |-> "success", message |-> SuccessMsg]

\* lines 129-147: the meeting content is assembled, or the handler returns the
\* no-content error
Assemble(r) ==
    /\ pc[r] = "assemble" /\ loop = r
    /\ LET content == MeetingContent(fr[r].transcription, fr[r].combined_context) IN
       IF content = None
       THEN /\ response' = [response EXCEPT ![r] = Append(@, ErrorResult(NoContentMsg))]
            /\ pc' = [pc EXCEPT ![r] = "finally"]
            /\ UNCHANGED fr
       ELSE /\ fr' = [fr EXCEPT ![r].meeting_content = content]
            /\ pc' = [pc EXCEPT ![r] = "ask"]
            /\ UNCHANGED response
    /\ UNCHANGED << globals, inputs, ta, exc, propagated, stubs, history >>

\* faulty variant of lines 182-190: a failed call of the language model is
\* made a second time
AskModelRetry(r) ==
    /\ pc[r] = "ask" /\ loop = r
    /\ \E ok \in BOOLEAN, reply \in Summaries \cup ExcMsgs :
          /\ reply \in (IF ok THEN Summaries ELSE ExcMsgs)
          /\ Allowed("llm", ok) /\ (ok \/ Allowed("msg", reply))
          /\ ask_calls' = [ask_calls EXCEPT ![r] =
                              IF ok THEN Append(@, fr[r].meeting_content)
                              ELSE @ \o << fr[r].meeting_content, fr[r].meeting_content >>]
          /\ llm_error' = [llm_error EXCEPT ![r] = IF ok THEN @ ELSE reply]
          /\ fr' = [fr EXCEPT ![r].final_summary = askModel(ok, reply)]
          /\ response' = [response EXCEPT ![r] = Append(@, SuccessResult(askModel(ok, reply)))]
    /\ pc' = [pc EXCEPT ![r] = "finally"]
    /\ UNCHANGED << globals, inputs, ta, exc, propagated, pipe_calls, ffmpeg_checks,
                    ocr_calls, caption_calls, history >>

\* lines 182-190 with askModel (slideSummary.py lines 210-231): one call of the
\* language model, whose failure askModel turns into text, then the success
\* result
AskModel(r) ==
    /\ pc[r] = "ask" /\ loop = r
    /\ ask_calls' = [ask_calls EXCEPT ![r] = Append(@, fr[r].meeting_content)]
    /\ \E ok \in BOOLEAN, reply \in Summaries \cup ExcMsgs :
          /\ reply \in (IF ok THEN Summaries ELSE ExcMsgs)
          /\ Allowed("llm", ok) /\ (ok \/ Allowed("msg", reply))
          /\ llm_error' = [llm_error EXCEPT ![r] = IF ok THEN @ ELSE reply]
          /\ fr' = [fr EXCEPT ![r].final_summary = askModel(ok, reply)]
          /\ response' = [response EXCEPT ![r] = Append(@, SuccessResult(askModel(ok, reply)))]
    /\ pc' = [pc EXCEPT ![r] = "finally"]
    /\ UNCHANGED << globals, inputs, ta, exc, propagated, pipe_calls, ffmpeg_checks,
                    ocr_calls, caption_calls, history >>

\* faulty variant of lines 192-199: the exception is logged and raised again
ExceptReraise(r) ==
    /\ pc[r] = "except" /\ loop = r
    /\ propagated' = [propagated EXCEPT ![r] = exc[r]]
    /\ exc' = [exc EXCEPT ![r] = None]
    /\ pc' = [pc EXCEPT ![r] = "finally"]
    /\ UNCHANGED << globals, inputs, fr, ta, response, stubs, history >>

\* lines 192-199: every Exception becomes an error result
Except(r) ==
    /\ pc[r] = "except" /\ loop = r
    /\ response' = [response EXCEPT ![r] = Append(@, ErrorResult(exc[r]))]
    /\ exc' = [exc EXCEPT ![r] = None]
    /\ pc' = [pc EXCEPT ![r] = "finally"]
    /\ UNCHANGED << globals, inputs, fr, ta, propagated, stubs, history >>

\* the client disconnects while the coroutine is suspended: CancelledError is
\* raised at the await; it is no Exception, so only the finally clause runs
Cancel(r) ==
    /\ pc[r] \in {"await_mp4", "await_pdf"} /\ loop = 0
    /\ loop' = r
    /\ propagated' = [propagated EXCEPT ![r] = "CancelledError"]
    /\ pc' = [pc EXCEPT ![r] = "finally"]
    /\ UNCHANGED << pending, uploads, temp_files, disk, pipe_defined, adapters, inputs, fr, ta, exc,
                    response, stubs, history >>

\* the paths of temp_files, all requests' ones, that exist
Removable == { temp_files[k] : k \in 1..Len(temp_files) } \cap disk

\* lines 200-208: every path in the module-level list that exists is removed
\* (a failing os.remove is logged); the list itself is left as it is.  The
\* handler is left and its locals with it
Cleanup(r) ==
    /\ pc[r] = "finally" /\ loop = r
    /\ \E stuck \in SUBSET Removable :
          /\ adapters.fixed => stuck = (IF adapters.remove THEN {} ELSE Removable)
          /\ disk' = disk \ (Removable \ stuck)
          /\ deleted' = [deleted EXCEPT ![r] = @ \cup (Removable \ stuck)]
          /\ failures' = [failures EXCEPT ![r] =
                              IF stuck = {} THEN @ ELSE @ \cup {"os_remove"}]
    /\ fr' = [fr EXCEPT ![r] = NewFrame]
    /\ doc' = [doc EXCEPT ![r] = NoDoc]
    /\ pc' = [pc EXCEPT ![r] = "done"]
    /\ loop' = 0
    /\ UNCHANGED << pending, uploads, temp_files, pipe_defined, adapters, mp4_file, pdf_file, ta, exc,
                    response, propagated, stubs, created >>

Next ==
    \E r \in Reqs :
        \/ Receive(r)
        \/ Begin(r)
        \/ SkipVideo(r)
        \/ OpenVideoTemp(r)
        \/ ReadVideo(r)
        \/ TA_ExtractAudio(r)
        \/ TA_CheckFfmpeg(r)
        \/ TA_FirstAttempt(r)
        \/ TA_SecondAttempt(r)
        \/ TA_Return(r)
        \/ SkipPdf(r)
        \/ OpenPdfTemp(r)
        \/ ReadPdf(r)
        \/ ExtractText(r)
        \/ OcrImages(r)
        \/ CaptionImages(r)
        \/ Combine(r)
        \/ Assemble(r)
        \/ AskModel(r)
        \/ Except(r)
        \/ Cancel(r)
        \/ Cleanup(r)

Spec == Init /\ [][Next]_vars

(* ---------------------- two clients at the same time -------------------- *)
\* the two requests that are served together
Pair == {1, 2}

\* the documents the two clients upload
PairDocs ==
    { << [text |-> "Q3 Roadmap", images |-> << BarChart >>] >>,
      << [text |-> "",           images |-> << Slide, Broken >>] >> }

\* a freshly started server that receives two requests with the same uploads;
\* every adapter is deterministic
InitPair == \E d \in PairDocs : InitEnv(Pair, {d}, Profiles)

SpecPair == InitPair /\ [][Next]_vars

(* ============================== claims ================================= *)
\* the request is inside the handler, its locals alive
InHandler(r) == pc[r] \notin {"idle", "start", "done"}
\* the calls of the document pipeline that can raise
DocFailures ==
    {"extract_text_from_pdf", "fitz_open", "image_to_string", "blip_load", "caption_image"}
\* both transcription attempts failed, or ffmpeg is missing
TranscriptionFailed(r) == "pipe_second" \in failures[r] \/ "ffmpeg" \in failures[r]
Cancelled(r) == propagated[r] = "CancelledError"

\* C1: a request with neither a video nor a document never calls askModel and
\* ends with status "error", an empty summary and the no-content message.
C1_NoArtifactsIsError ==
    \A r \in Reqs :
        (pc[r] # "idle" /\ ~mp4_file[r] /\ ~pdf_file[r]) =>
            /\ ask_calls[r] = << >>
            /\ pc[r] = "done" => response[r] = << ErrorResult(NoContentMsg) >>

C1_Witness ==
    \E r \in Reqs :
        /\ pc[r] = "done" /\ ~mp4_file[r] /\ ~pdf_file[r]
        /\ response[r] # << >> /\ response[r][1].status = "error"

\* C2: whenever neither artifact yielded usable text (empty transcript, empty
\* embedded text, empty OCR text, empty captions), askModel is never called and
\* a result, once there, is an error.
C2_NoTextNoModelCall ==
    \A r \in Reqs :
        ( /\ InHandler(r)
          /\ fr[r].transcription = "" /\ fr[r].pdf_text = ""
          /\ fr[r].image_ocr_text = "" /\ fr[r].image_captions_text = "" ) =>
            /\ ask_calls[r] = << >>
            /\ response[r] # << >> => response[r][1].status = "error"

\* C3: when the language-model call raised, the result is the error result
\* carrying the failure message verbatim, never a success.
C3_ModelFailureIsError ==
    \A r \in Reqs :
        (llm_error[r] # None /\ response[r] # << >>) =>
            response[r] = << ErrorResult(llm_error[r]) >>

\* C4: when both transcription attempts failed or ffmpeg is missing, the
\* transcript counts as empty: with a document the content sent to the model is
\* the slides section alone, and a video-only request ends in an error without
\* any model call.
C4_FailedTranscriptIsEmpty ==
    \A r \in Reqs :
        (TranscriptionFailed(r) /\ pc[r] = "finally" /\ ~Cancelled(r)) =>
            /\ ask_calls[r] # << >> =>
                  ask_calls[r] = << SlidesHeader \o fr[r].combined_context >>
            /\ ~pdf_file[r] =>
                  /\ ask_calls[r] = << >>
                  /\ response[r] # << >> /\ response[r][1].status = "error"

\* C5: the transcriber is called first with chunk length 30, a second time, with
\* chunk length 15, if and only if the first call failed, never a third time,
\* and the text of a successful second call is what transcribe_audio returns.
C5_RetryOnceAtHalfChunk ==
    \A r \in Reqs :
        /\ pipe_calls[r] \in { << >>, << DefaultChunk >>, << DefaultChunk, RetryChunk >> }
        /\ Len(pipe_calls[r]) = 2 => "pipe_first" \in failures[r]
        /\ ( /\ pipe_defined /\ "pipe_first" \in failures[r]
             /\ pc[r] # "ta_second" ) => Len(pipe_calls[r]) = 2
        /\ ( /\ pc[r] = "pdf" /\ Len(pipe_calls[r]) = 2
             /\ "pipe_second" \notin failures[r] ) =>
                fr[r].transcription = ta[r].result

C5_Witness ==
    \E r \in Reqs :
        /\ pc[r] = "pdf"
        /\ pipe_calls[r] = << DefaultChunk, RetryChunk >>
        /\ "pipe_second" \notin failures[r]
        /\ fr[r].transcription = "We discussed the roadmap."

\* the faults of the environment around the pipeline: a read of an upload
\* that raises, an os.remove that fails
EnvFailures == {"read_mp4", "read_pdf", "os_remove"}

\* C6: once a request has finished, by success, by the no-content error, by an
\* exception in an extraction step or by a failure of the language model, none
\* of the files it created is left on disk (no os.remove call having failed).
C6_NoFileLeft ==
    \A r \in Reqs :
        (pc[r] = "done" /\ ~Cancelled(r) /\ failures[r] \cap EnvFailures = {}) =>
            created[r] \cap disk = {}

\* C7: every request that runs to its end returns exactly one result of the
\* form {summary, status, message} and lets no exception out of the handler,
\* whatever artifacts it carries and whichever step fails; a result, once
\* returned, is not replaced.
C7_ExactlyOneResult ==
    /\ [](\A r \in Reqs :
            /\ (pc[r] = "done" /\ ~Cancelled(r)) =>
                  /\ propagated[r] = None
                  /\ Len(response[r]) = 1
                  /\ DOMAIN response[r][1] = {"summary", "status", "message"}
                  /\ response[r][1].status \in {"success", "error"}
            /\ Len(response[r]) <= 1
            /\ (response[r] # << >> /\ pc[r] # "done") => pc[r] = "finally")
    /\ [][\A r \in Reqs : response[r] # << >> => response'[r] = response[r]]_vars

C7_Witness ==
    \E r \in Reqs :
        /\ pc[r] = "done" /\ mp4_file[r] /\ pdf_file[r]
        /\ failures[r] \cap DocFailures # {}
        /\ response[r] # << >> /\ response[r][1].status = "error"

\* C8: with a video transcribed to a non-empty text and a document whose
\* pipeline raised, the request still calls the model, with the transcript
\* section alone, and returns success.
C8_DocumentFailureDegrades ==
    \A r \in Reqs :
        ( /\ pc[r] = "done" /\ mp4_file[r] /\ pdf_file[r]
          /\ failures[r] \cap DocFailures # {}
          /\ ta[r].result # None /\ ta[r].result # "" ) =>
            /\ response[r] # << >> /\ response[r][1].status = "success"
            /\ ask_calls[r] = << TranscriptionHeader \o ta[r].result >>

\* C9: a failing image does not abort a document pass: after an OCR call or a
\* caption step raised for one image, every other image is still processed
\* (every decodable image is read by Tesseract, every image is captioned) and
\* the exception does not reach the handler.
C9_ImageFailureIsolated ==
    \A r \in Reqs :
        /\ ("image_to_string" \in failures[r] /\ doc[r] # NoDoc) =>
              /\ pc[r] # "except"
              /\ ocr_calls[r] = Len(OcrTexts(ImagesOf(doc[r])))
        /\ ("caption_image" \in failures[r] /\ doc[r] # NoDoc) =>
              /\ pc[r] # "except"
              /\ caption_calls[r] >= Len(ImagesOf(doc[r])) - 1

\* C10: after a successful extraction the combined document context is the
\* embedded text, the OCR text and the captions, in that order, each followed
\* by a newline except the last, empty parts included; the roadmap page with a
\* blank-OCR bar chart gives "Q3 Roadmap\n\na bar chart".
C10_CombinedContextOrder ==
    \A r \in Reqs :
        ( /\ pc[r] \in {"assemble", "ask", "finally"}
          /\ doc[r] # NoDoc /\ failures[r] \cap DocFailures = {} ) =>
            /\ fr[r].pdf_text = extract_text_from_pdf(doc[r])
            /\ fr[r].combined_context =
                  fr[r].pdf_text \o "\n" \o fr[r].image_ocr_text \o "\n"
                      \o fr[r].image_captions_text
            /\ doc[r] = << [text |-> "Q3 Roadmap", images |-> << BarChart >>] >> =>
                  fr[r].combined_context = "Q3 Roadmap\n\na bar chart"

C10_Witness ==
    \E r \in Reqs :
        /\ pc[r] = "assemble"
        /\ doc[r] = << [text |-> "Q3 Roadmap", images |-> << BarChart >>] >>
        /\ fr[r].combined_context = "Q3 Roadmap\n\na bar chart"

\* C11: in a document-only request whose document holds N embedded images,
\* pytesseract.image_to_string is called exactly N times and model.generate
\* exactly N times (the document being readable and BLIP loaded).
C11_AdaptersCalledPerImage ==
    \A r \in Reqs :
        ( /\ pc[r] = "finally" /\ ~mp4_file[r] /\ pdf_file[r] /\ doc[r] # NoDoc
          /\ failures[r] \cap {"extract_text_from_pdf", "fitz_open", "blip_load"} = {} ) =>
            /\ ocr_calls[r] = Len(ImagesOf(doc[r]))
            /\ caption_calls[r] = Len(ImagesOf(doc[r]))

\* C12: the context handed to askModel is the transcript under
\* "Meeting Transcription:" when only the transcript is non-empty, the document
\* context under "Meeting Slides Content:" when only that is non-empty, both
\* sections in that order when both are, and no call is made when both are
\* empty; a video-only request with the roadmap transcript hands over exactly
\* "Meeting Transcription:\nWe discussed the roadmap.".
C12_ContentUnderHeaders ==
    \A r \in Reqs :
        LET T == fr[r].transcription
            C == fr[r].combined_context
        IN  (pc[r] = "finally" /\ failures[r] \cap ({"read_pdf"} \cup DocFailures) = {}
                /\ ~Cancelled(r) /\ "read_mp4" \notin failures[r]) =>
              /\ (T # "" /\ C = "") =>
                    ask_calls[r] = << "Meeting Transcription:\n" \o T >>
              /\ (T = "" /\ C # "") =>
                    ask_calls[r] = << "Meeting Slides Content:\n" \o C >>
              /\ (T # "" /\ C # "") =>
                    ask_calls[r] = << "Meeting Transcription:\n" \o T
                                        \o "\n\nMeeting Slides Content:\n" \o C >>
              /\ (T = "" /\ C = "") => ask_calls[r] = << >>
              /\ ~pdf_file[r] => C = ""
              /\ ~mp4_file[r] => T = ""
              /\ (~pdf_file[r] /\ T = "We discussed the roadmap.") =>
                    ask_calls[r] = << "Meeting Transcription:\nWe discussed the roadmap." >>

C12_Witness ==
    \E r \in Reqs :
        /\ pc[r] = "finally" /\ mp4_file[r] /\ pdf_file[r]
        /\ fr[r].transcription = "We discussed the roadmap."
        /\ fr[r].combined_context = "Q3 Roadmap\n\na bar chart"
        /\ ask_calls[r] = << "Meeting Transcription:\nWe discussed the roadmap.\n\nMeeting Slides Content:\nQ3 Roadmap\n\na bar chart" >>

\* C13: a request whose meeting content is non-empty calls the language model
\* exactly once, the call comes after the last call of every extraction
\* adapter, and there is never a second call, also after a failed first one.
C13_ModelCalledOnce ==
    /\ [](\A r \in Reqs :
            /\ Len(ask_calls[r]) <= 1
            /\ (pc[r] = "finally" /\ fr[r].meeting_content # None) =>
                  Len(ask_calls[r]) = 1
            /\ llm_error[r] # None => Len(ask_calls[r]) = 1)
    /\ [][\A r \in Reqs :
            /\ ask_calls'[r] # ask_calls[r] => pc[r] = "ask"
            /\ ask_calls[r] # << >> =>
                  /\ pipe_calls'[r] = pipe_calls[r]
                  /\ ocr_calls'[r] = ocr_calls[r]
                  /\ caption_calls'[r] = caption_calls[r]
                  /\ ffmpeg_checks'[r] = ffmpeg_checks[r]]_vars

C13_Witness ==
    \E r \in Reqs :
        /\ pc[r] = "done" /\ llm_error[r] # None
        /\ Len(ask_calls[r]) = 1 /\ mp4_file[r] /\ pdf_file[r]

\* the paths a request created, wrote or removed
Touched(r) == created[r] \cup deleted[r]
\* the two temp files NamedTemporaryFile makes for a request
Uploads(r) == {UploadPath(r, Mp4Suffix), UploadPath(r, PdfSuffix)}

\* C14: two requests that are in the handler at the same time create, write
\* and remove disjoint sets of paths.
C14_DisjointStorage ==
    \A r, q \in Reqs :
        (r # q /\ InHandler(r) /\ InHandler(q)) => Touched(r) \cap Touched(q) = {}

\* C15: a request cancelled at an await leaves neither of its upload temp
\* files behind when the handler is left (no os.remove having failed).
C15_CancelLeaksNothing ==
    \A r \in Reqs :
        (pc[r] = "done" /\ Cancelled(r) /\ "os_remove" \notin failures[r]) =>
            Uploads(r) \cap disk = {}

\* C16 as stated: whenever transcribe_audio returns, `ffmpeg -version` was run
\* exactly once, the pipe is called only after it, and without ffmpeg the pipe
\* is never called and the FFmpeg message is returned.
C16_CheckOncePerCall ==
    \A r \in Reqs :
        /\ (pc[r] = "pdf" /\ mp4_file[r]) => ffmpeg_checks[r] = 1
        /\ pipe_calls[r] # << >> => ffmpeg_checks[r] = 1
        /\ "ffmpeg" \in failures[r] =>
              /\ pipe_calls[r] = << >>
              /\ pc[r] = "pdf" => fr[r].transcription = FfmpegMsg

\* C16 amended: `ffmpeg -version` is run at most once per call, exactly once
\* in every call in which extract_audio returned and never in a call in which
\* extract_audio raised; the pipe is called only after the check, and without
\* ffmpeg the pipe is never called and the FFmpeg message is returned.
C16_CheckOnceAfterExtraction ==
    \A r \in Reqs :
        /\ ffmpeg_checks[r] <= 1
        /\ (pc[r] = "pdf" /\ mp4_file[r]) =>
              ffmpeg_checks[r] = (IF "extract_audio" \in failures[r] THEN 0 ELSE 1)
        /\ pipe_calls[r] # << >> => ffmpeg_checks[r] = 1
        /\ "ffmpeg" \in failures[r] =>
              /\ pipe_calls[r] = << >>
              /\ pc[r] = "pdf" => fr[r].transcription = FfmpegMsg

C16_Witness ==
    \E r \in Reqs :
        /\ pc[r] = "pdf" /\ mp4_file[r] /\ "ffmpeg" \in failures[r]
        /\ ffmpeg_checks[r] = 1 /\ pipe_calls[r] = << >>
        /\ fr[r].transcription = FfmpegMsg

\* C17: with deterministic adapters, two requests that carry the same video
\* and the same document and are not cancelled hand the same meeting content
\* to the language model, whatever the earlier one left in temp_files, in
\* extracted_images and as temp_audio.wav.
C17_SameContentTwice ==
    \A r, q \in Reqs :
        ( /\ pc[r] = "done" /\ pc[q] = "done"
          /\ mp4_file[r] = mp4_file[q] /\ pdf_file[r] = pdf_file[q]
          /\ ~Cancelled(r) /\ ~Cancelled(q) ) =>
            ask_calls[r] = ask_calls[q]

\* request 2 ran after request 1 had left the handler, found request 1's audio
\* file, image files and temp_files entries, and handed over the same content
C17_Witness ==
    /\ pc[1] = "done" /\ pc[2] = "done"
    /\ mp4_file[1] /\ mp4_file[2] /\ pdf_file[1] /\ pdf_file[2]
    /\ temp_files = << UploadPath(1, Mp4Suffix), UploadPath(1, PdfSuffix),
                       UploadPath(2, Mp4Suffix), UploadPath(2, PdfSuffix) >>
    /\ TempAudio \in disk /\ ImagePath(1, 1) \in disk
    /\ ask_calls[1] # << >> /\ ask_calls[2] = ask_calls[1]

\* C18: when transcribe_audio returns for a video, temp_audio.wav does not
\* exist (no os.remove having failed).
C18_AudioFileReleased ==
    \A r \in Reqs :
        (pc[r] = "pdf" /\ mp4_file[r] /\ "os_remove" \notin failures[r]) =>
            TempAudio \notin disk

\* C19: under every interleaving of two requests the video upload exists when
\* it is passed to transcribe_audio and the document upload exists while it
\* is passed to extract_text_from_pdf, extract_images_and_ocr and
\* generate_image_captions.
C19_UploadPresentWhenUsed ==
    \A r \in Reqs :
        /\ pc[r] = "ta_extract" => UploadPath(r, Mp4Suffix) \in disk
        /\ pc[r] \in {"extract_text", "ocr", "captions"} =>
              UploadPath(r, PdfSuffix) \in disk

\* another request's cleanup removed the video upload of a request that is
\* about to extract from its document upload
C19_Witness ==
    \E r, q \in Reqs :
        /\ r # q /\ pc[r] = "extract_text" /\ pc[q] = "done"
        /\ UploadPath(r, Mp4Suffix) \in deleted[q]
        /\ UploadPath(r, PdfSuffix) \in disk

\* C20: once a request has left the handler, temp_files holds none of its
\* paths.
C20_TrackingReleased ==
    \A r \in Reqs :
        pc[r] = "done" =>
            \A k \in 1..Len(temp_files) : temp_files[k] \notin Uploads(r)

\* C21: every result the handler returns has status "error", an empty summary
\* and a non-empty message, or status "success" with the text askModel
\* returned as its summary; no error result has an empty message.
C21_ResultShapes ==
    \A r \in Reqs :
        \A k \in 1..Len(response[r]) :
            LET res == response[r][k] IN
            \/ res.status = "error" /\ res.summary = "" /\ res.message # ""
            \/ /\ res.status = "success" /\ res.message = SuccessMsg
               /\ InHandler(r) => res.summary = fr[r].final_summary

\* whether the string begins with the given prefix
StartsWith(str, prefix) ==
    Len(str) >= Len(prefix) /\ SubSeq(str, 1, Len(prefix)) = prefix
\* the steps inside transcribe_audio
InTranscribe(r) ==
    pc[r] \in {"ta_extract", "ta_ffmpeg", "ta_first", "ta_second", "ta_return"}
\* the failures after which transcribe_audio has no transcript to return
NoTranscript == {"extract_audio", "ffmpeg", "pipe_second"}

\* C22 as stated: whenever one of transcribe_audio's steps failed
\* (extract_audio, the ffmpeg check, the second pipe call or the pipe being
\* undefined, os.remove of the audio file) the string it returns is non-empty
\* and starts with "Error".
C22_ErrorTextOnEveryFailure ==
    \A r \in Reqs :
        ( /\ pc[r] = "pdf" /\ mp4_file[r]
          /\ failures[r] \cap (NoTranscript \cup {"os_remove"}) # {} ) =>
            StartsWith(fr[r].transcription, "Error")

\* C22 amended: transcribe_audio never raises; when extract_audio failed,
\* ffmpeg is missing, or the second pipe call failed (the pipe being undefined
\* included), the string it returns is non-empty and starts with "Error";
\* otherwise it returns the text the pipe produced, also when os.remove of the
\* audio file failed.
C22_ErrorTextWhenNoTranscript ==
    /\ [](\A r \in Reqs :
            (pc[r] = "pdf" /\ mp4_file[r]) =>
                IF failures[r] \cap NoTranscript # {}
                THEN /\ StartsWith(fr[r].transcription, "Error")
                     /\ Len(fr[r].transcription) > Len("Error")
                ELSE /\ fr[r].transcription = ta[r].result
                     /\ fr[r].transcription \in Transcripts)
    /\ [][\A r \in Reqs :
            InTranscribe(r) =>
                /\ pc'[r] \in {"ta_ffmpeg", "ta_first", "ta_second", "ta_return", "pdf"}
                /\ exc'[r] = None /\ propagated'[r] = None]_vars

\* the pipe is undefined and the call returned the NameError as text
C22_Witness ==
    \E r \in Reqs :
        /\ pc[r] = "pdf" /\ mp4_file[r] /\ ~pipe_defined
        /\ pipe_calls[r] = << >>
        /\ fr[r].transcription = "Error processing file: name 'pipe' is not defined"

====
